---- MODULE Spec2Model ----
(***************************************************************************)
(* State-machine model of the VoiceForge dispatch layer:                   *)
(*   - app/core/rate_limiter.py : RateLimiter.is_allowed (Redis sorted-set *)
(*     sliding window), the rate_limit decorator and RateLimitMiddleware;  *)
(*   - app/api/v1/endpoints/tts.py : the text_to_speech handler behind the *)
(*     middleware;                                                         *)
(*   - app/services/gpu_client.py : RemoteGPUClient's retry loops, its     *)
(*     connection handle, health_check and the configuration singleton;    *)
(*   - infrastructure/distributed/gpu-worker/voice_worker.py : the worker's *)
(*     ModelManager and HTTP handlers;                                     *)
(*   - app/workers : the Celery inference tasks;                           *)
(*   - app/api/v1/endpoints/websocket.py : the ConnectionManager and the   *)
(*     WebSocket handlers.                                                 *)
(*                                                                         *)
(* Time is counted in clock ticks; time.time() returns the tick current at *)
(* the moment of the call.  A Redis sorted set whose members are str(now)  *)
(* and whose scores are now is a set of timestamps: str is injective on    *)
(* clock values, so two additions with the same clock value are the same   *)
(* member and the second one only overwrites the first.                    *)
(***************************************************************************)
EXTENDS Integers, Sequences, FiniteSets, TLC

VARIABLES
    clock,      \* the wall clock (time.time()), shared by the API and Redis
    store,      \* Redis: key -> sorted set (the set of stored timestamps)
    expireAt,   \* Redis: key -> time at which the key expires, or Persistent
    decoCfg,    \* arguments the rate_limit decorator was applied with
    pc,         \* per request task: idle / pipe / handler / done (answered)
    req,        \* per request task: locals of the rate-limit check
    resp,       \* per request task: the HTTP response being built
    tally,      \* history: per key and clock value, the verdicts of the
                \*   is_allowed calls that observed that clock value
    served,     \* history: calls of tts_service.generate_speech for Account
    tracing,    \* which history is kept (and bounds the run): tally or served
    usage,      \* what the latest get_usage call returned, if any was made
    config,     \* RemoteGPUClient.config
    gpc,        \* inference call: idle / attempt (awaiting client.post) / done
    gop,        \* inference call: the operation that is running
    attempt,    \* inference call: the loop variable of range(retry_attempts)
    respLog,    \* history: the worker's answer to each attempt of the call
    outcome,    \* how the call ended: none / returned / returned_none / raised
    raisedErr,  \* the error the call raised, or None
    sent,       \* history: HTTP requests the call has sent
    client,     \* RemoteGPUClient._client: NoHandle (None) or a handle
    handles,    \* the httpx.AsyncClient objects created so far: open / closed
    local,      \* inference call: its local variable "client"
    probe,      \* health_check call: position, requests sent, result
    worked,     \* history: per attempt, whether the worker received the
                \*   request in full and ran the operation on it
    completed,  \* history: times the worker completed the call's operation
    upload,     \* inference call: read position of the io.BytesIO it uploads,
                \*   and history: the request body each attempt sent
    environ,    \* os.environ: GPU_WORKER_MODE and GPU_WORKER_RETRY
    singleton,  \* gpu_client._gpu_client is not None (its config is config)
    answer,     \* the latest result of is_remote_gpu_enabled()
    ttsCall,    \* per request task: a POST /text-to-speech/{voice_id} request
    models,     \* worker: ModelManager._tts_model, _whisper_model, _sfx_model,
                \*   _demucs_model: NoModel (None) or the instance held
    built,      \* worker history: per model, instances constructed so far
    running,    \* worker history: per model, inference invocations executing
    wreq,       \* worker: per HTTP request task, its position and history
    loop,       \* worker: the request task the event loop is executing, or 0
    bg,         \* worker: threadpool threads running load_all of /models/preload
    job,        \* Celery: one submitted task: its message, the runs of its body
                \*   so far, and how it ended
    manager,    \* websocket.py: the ConnectionManager's active_connections
                \*   and user_connections
    ws,         \* per request task: a WebSocket handler's position and locals
    uuids       \* connection ids uuid.uuid4() has produced so far

rlVars  == <<clock, store, expireAt, decoCfg, pc, req, resp, tally, served, tracing,
             usage>>
gpuVars == <<config, gpc, gop, attempt, respLog, outcome, raisedErr, sent, client,
             handles, local, probe, worked, completed, upload, environ, singleton, answer>>
ttsVars == <<ttsCall>>
wkVars  == <<models, built, running, wreq, loop, bg>>
taskVars == <<job>>
wsVars  == <<manager, ws, uuids>>
vars    == <<clock, store, expireAt, decoCfg, pc, req, resp, tally, served, tracing,
             usage, config, gpc, gop, attempt, respLog, outcome, raisedErr, sent, client,
             handles, local, probe, worked, completed, upload, environ, singleton, answer,
             ttsCall, models, built, running, wreq, loop, bg,
             job, manager, ws, uuids>>

None == "None"

Max(a, b) == IF a >= b THEN a ELSE b

(***************************************************************************)
(* Bounds of the model.                                                    *)
(***************************************************************************)
NumProcs  == 2    \* concurrent request tasks
Horizon   == 2    \* clock ticks after the start of the run
MaxLimit  == 2    \* largest custom_limit of the decorator
MaxWindow == 2    \* largest custom_window of the decorator, in ticks
MaxCalls  == 3    \* is_allowed calls recorded in tally
MaxServed == 11   \* generate_speech calls counted in served
MaxRetry  == 3    \* largest GPU_WORKER_RETRY
MaxHandles == 2   \* httpx.AsyncClient objects one RemoteGPUClient creates
MaxPreloads == 1  \* /models/preload background tasks the worker is given
FileLen   == 2    \* length of an uploaded audio file, in chunks
MaxRuns   == 5    \* runs of one Celery task's body
MaxConnections == 3  \* WebSocket connections accepted in one run

Procs == 1..NumProcs

(***************************************************************************)
(* rate_limiter.py: the per-plan table and its lookup.                     *)
(***************************************************************************)
RATE_LIMITS ==
    [free       |-> [tts         |-> [limit |-> 10,   window |-> 60],
                     stt         |-> [limit |-> 5,    window |-> 60],
                     voice_clone |-> [limit |-> 2,    window |-> 3600],
                     sfx         |-> [limit |-> 5,    window |-> 60],
                     default     |-> [limit |-> 60,   window |-> 60]],
     starter    |-> [tts         |-> [limit |-> 30,   window |-> 60],
                     stt         |-> [limit |-> 15,   window |-> 60],
                     voice_clone |-> [limit |-> 10,   window |-> 3600],
                     sfx         |-> [limit |-> 15,   window |-> 60],
                     default     |-> [limit |-> 120,  window |-> 60]],
     creator    |-> [tts         |-> [limit |-> 60,   window |-> 60],
                     stt         |-> [limit |-> 30,   window |-> 60],
                     voice_clone |-> [limit |-> 30,   window |-> 3600],
                     sfx         |-> [limit |-> 30,   window |-> 60],
                     default     |-> [limit |-> 300,  window |-> 60]],
     pro        |-> [tts         |-> [limit |-> 120,  window |-> 60],
                     stt         |-> [limit |-> 60,   window |-> 60],
                     voice_clone |-> [limit |-> 100,  window |-> 3600],
                     sfx         |-> [limit |-> 60,   window |-> 60],
                     default     |-> [limit |-> 600,  window |-> 60]],
     scale      |-> [tts         |-> [limit |-> 300,  window |-> 60],
                     stt         |-> [limit |-> 150,  window |-> 60],
                     voice_clone |-> [limit |-> 300,  window |-> 3600],
                     sfx         |-> [limit |-> 150,  window |-> 60],
                     default     |-> [limit |-> 1200, window |-> 60]],
     enterprise |-> [tts         |-> [limit |-> 1000, window |-> 60],
                     stt         |-> [limit |-> 500,  window |-> 60],
                     voice_clone |-> [limit |-> 1000, window |-> 3600],
                     sfx         |-> [limit |-> 500,  window |-> 60],
                     default     |-> [limit |-> 6000, window |-> 60]]]

\* RATE_LIMITS.get(plan, RATE_LIMITS["free"]).get(endpoint_type, ...["default"])
get_rate_limit(plan, endpoint_type) ==
    LET plan_limits == IF plan \in DOMAIN RATE_LIMITS
                       THEN RATE_LIMITS[plan] ELSE RATE_LIMITS["free"]
    IN  IF endpoint_type \in DOMAIN plan_limits
        THEN plan_limits[endpoint_type] ELSE plan_limits["default"]

\* main.py, "Rate Limits" table of the API description: TTS requests per minute.
DocumentedTTSPerMinute ==
    [free |-> 10, starter |-> 30, creator |-> 60, pro |-> 120, scale |-> 300]

(***************************************************************************)
(* Requests the model sends.                                               *)
(***************************************************************************)
ClientHost == "10.0.0.1"                  \* request.client.host
TTSPath    == "/api/v1/text-to-speech/v1" \* POST /text-to-speech/{voice_id}
DecoPath   == "/api/v1/tts"               \* a route wrapped by @rate_limit("tts")
HealthPath == "/health"
Paths      == {TTSPath, DecoPath, HealthPath}
\* the user whose credentials the requests carry
Account    == [user_id |-> "u1", plan |-> "free"]

\* hashlib.md5(endpoint.encode()).hexdigest()[:8] of the paths above
Md5Hex8(endpoint) ==
    CASE endpoint = TTSPath    -> "37e81d09"
      [] endpoint = DecoPath   -> "37bb75ca"
      [] endpoint = HealthPath -> "febd9bd9"

\* any(request.url.path.startswith(p) for p in skip_paths)
StartsWithSkipPath(path) == path \in {HealthPath}

\* RateLimiter._get_key: ":".join(parts), kept as the tuple of its parts
_get_key(identifier, endpoint) ==
    <<"ratelimit", identifier>>
        \o (IF endpoint # None THEN <<Md5Hex8(endpoint)>> ELSE <<>>)
        \o <<"minute">>

KeySpace == {_get_key(Account.user_id, DecoPath), _get_key(ClientHost, None)}

(***************************************************************************)
(* The clock starts one default window after the epoch, so that a full     *)
(* window of earlier timestamps is representable with scores >= 0.         *)
(***************************************************************************)
StartTime == get_rate_limit("free", "default").window
EndTime   == StartTime + Horizon

(***************************************************************************)
(* RateLimiter.is_allowed.  The pipeline is a MULTI/EXEC transaction: the  *)
(* four commands run on the server as one step.                            *)
(***************************************************************************)
\* ZREMRANGEBYSCORE key lo hi: both ends inclusive
zremrangebyscore(zset, lo, hi) == {s \in zset : ~(lo <= s /\ s <= hi)}

\* ZADD key {str(now): now}
zadd(zset, now) == zset \cup {now}

expire_NoTimeToLive(t, ttl) == 0 - 1

\* EXPIRE key ttl, executed at server time t
expire(t, ttl) == t + ttl

\* lines 101-110: the info dictionary
RateInfo(limit, current_count, now, window_seconds) ==
    [limit          |-> limit,
     remaining      |-> Max(0, limit - current_count - 1),
     reset          |-> now + window_seconds,
     window_seconds |-> window_seconds]

\* lines 112-115
Admit(current_count, limit) == ~(current_count >= limit)

\* lines 80-115 against the stored set zset
is_allowed(zset, now, limit, window_seconds) ==
    LET window_start  == now - window_seconds
        evicted       == zremrangebyscore(zset, 0, window_start)
        current_count == Cardinality(evicted)
    IN  [allowed |-> Admit(current_count, limit),
         info    |-> RateInfo(limit, current_count, now, window_seconds),
         zset    |-> zadd(evicted, now)]

(***************************************************************************)
(* HTTP responses: status, the rate-limit headers (None when absent) and   *)
(* whether the wrapped handler / downstream application was invoked.       *)
(***************************************************************************)
\* a header is <<>> when absent and <<value>> when set; str(int) is injective,
\* so a numeric header is kept as the number it prints
Absent == <<>>
Hdr(v) == <<v>>

NoResp == [status |-> 0, x_limit |-> Absent, x_remaining |-> Absent,
           x_reset |-> Absent, retry_after |-> Absent, invoked |-> FALSE]

\* rate_limit.wrapper lines 257-272 and RateLimitMiddleware lines 322-338
RateLimitedResponse(info) ==
    [status |-> 429, x_limit |-> Hdr(info.limit), x_remaining |-> Hdr(0),
     x_reset |-> Hdr(info.reset), retry_after |-> Hdr(info.window_seconds),
     invoked |-> FALSE]

\* an exception leaving is_allowed: main.py global_exception_handler
ServerErrorResponse ==
    [status |-> 500, x_limit |-> Absent, x_remaining |-> Absent,
     x_reset |-> Absent, retry_after |-> Absent, invoked |-> FALSE]

AfterCheck_AlwaysHandler(allowed) == "handler"

\* wrapper lines 257-274, middleware lines 322-352: a denied request is
\* answered at once, an admitted one is handed to the handler / application
AfterCheck(allowed) == IF allowed THEN "handler" ELSE "done"

NoReq == [flow |-> None, path |-> None, key |-> <<>>, limit |-> 0,
          window |-> 0, now |-> 0, verdict |-> None, store_failed |-> FALSE]

\* Python truthiness of an Optional[int] argument: None and 0 are both
\* falsy, and an argument left at None is kept as 0
Truthy(x) == x # 0

\* request.state.user as the middleware and the decorator may find it
\* (<<>> when the attribute is missing, <<user>> when it is set)
Identify(user) ==
    IF user # <<>>
    THEN [identifier |-> user[1].user_id, plan |-> user[1].plan]
    ELSE [identifier |-> ClientHost, plan |-> "free"]

\* Nothing in the application sets request.state.user before the middleware
\* runs (get_current_user is a route dependency and returns a dict).
MiddlewareStateUser == <<>>

DecoConfigs ==
    {[endpoint_type |-> "tts", custom_limit |-> l, custom_window |-> w] :
        l \in 1..MaxLimit, w \in 1..MaxWindow}
    \cup {[endpoint_type |-> "tts", custom_limit |-> 0, custom_window |-> 0]}

\* a Redis store that earlier traffic from ClientHost has filled: one entry
\* per tick of the window that ends at StartTime
FullWindow ==
    LET cfg == get_rate_limit("free", "default")
    IN  (StartTime - cfg.limit + 1)..StartTime

EmptyStore == [k \in KeySpace |-> {}]
Persistent == 0 - 1     \* Redis TTL of a key that has no expiry
NoExpiry   == [k \in KeySpace |-> Persistent]

Busy == {q \in Procs : pc[q] \in {"pipe", "handler"}}

Times == StartTime..EndTime
Verdicts == {"allowed", "denied", "raised"}
NoTally == [k \in KeySpace |-> [t \in Times |-> [v \in Verdicts |-> 0]]]

RECURSIVE SumOver(_, _)
SumOver(f, S) ==
    IF S = {} THEN 0
    ELSE LET x == CHOOSE y \in S : TRUE IN f[x] + SumOver(f, S \ {x})

\* calls on key k recorded with verdict v and a clock value in T
Count(k, v, T) == SumOver([t \in Times |-> tally[k][t][v]], T \cap Times)
Calls(k, T) == Count(k, "allowed", T) + Count(k, "denied", T) + Count(k, "raised", T)
Recorded == SumOver([k \in KeySpace |-> Calls(k, Times)], KeySpace)

\* what keeps a run finite: the calls recorded in tally, the value of served
CanCheck ==
    tracing => Recorded + Cardinality({q \in Procs : pc[q] = "pipe"}) < MaxCalls
CanServe == ~tracing => served + Cardinality(Busy) < MaxServed
CanStart == CanCheck /\ CanServe

\* self._client = None (gpu_client.py line 54); handles are numbered from 1
NoHandle == 0

\* no io.BytesIO has been made and no request body sent
NoUpload == [pos |-> 0, bodies |-> <<>>]

\* no health_check call has been made
NoProbe == [pc |-> "idle", sent |-> 0, result |-> None, raised |-> FALSE]

\* neither GPU_WORKER_MODE nor GPU_WORKER_RETRY is set
UnsetEnviron == [GPU_WORKER_MODE |-> Absent, GPU_WORKER_RETRY |-> Absent]

InitGPU ==
    /\ config = [enabled |-> FALSE, retry_attempts |-> 0]
    /\ gpc = "idle"
    /\ gop = None
    /\ attempt = 0
    /\ respLog = <<>>
    /\ outcome = "none"
    /\ raisedErr = None
    /\ sent = 0
    /\ client = NoHandle
    /\ handles = <<>>
    /\ local = NoHandle
    /\ probe = NoProbe
    /\ worked = <<>>
    /\ completed = 0
    /\ upload = NoUpload
    /\ environ = UnsetEnviron
    /\ singleton = FALSE
    /\ answer = Absent

InitRL(trace) ==
    /\ clock = StartTime
    /\ \E full \in BOOLEAN :
          LET mk == _get_key(ClientHost, None) IN
          /\ store = IF full THEN [EmptyStore EXCEPT ![mk] = FullWindow]
                              ELSE EmptyStore
          /\ expireAt = IF full
                        THEN [NoExpiry EXCEPT ![mk] =
                                expire(StartTime, get_rate_limit("free", "default").window + 1)]
                        ELSE NoExpiry
    /\ decoCfg \in DecoConfigs
    /\ pc = [p \in Procs |-> "idle"]
    /\ req = [p \in Procs |-> NoReq]
    /\ resp = [p \in Procs |-> NoResp]
    /\ tally = NoTally
    /\ served = 0
    /\ tracing = trace
    /\ usage = Absent

\* wrapper lines 240-243
WrapperLimitConfig(cfg, plan) ==
    IF Truthy(cfg.custom_limit) /\ Truthy(cfg.custom_window)
    THEN [limit |-> cfg.custom_limit, window |-> cfg.custom_window]
    ELSE get_rate_limit(plan, cfg.endpoint_type)

(***************************************************************************)
(* rate_limit.wrapper, lines 217-252: up to the await of pipe.execute().   *)
(***************************************************************************)
WrapperCall(p) ==
    /\ pc[p] \in {"idle", "done"}
    /\ CanStart
    /\ resp' = [resp EXCEPT ![p] = NoResp]
    /\ \E hasRequest \in BOOLEAN, user \in {<<Account>>} :
          IF ~hasRequest
          THEN \* lines 225-226: no Request among the arguments
               /\ req' = [req EXCEPT ![p] = [NoReq EXCEPT !.flow = "deco", !.path = DecoPath]]
               /\ pc' = [pc EXCEPT ![p] = "handler"]
          ELSE LET who == Identify(user)
                   limit_config == WrapperLimitConfig(decoCfg, who.plan)
               IN  /\ req' = [req EXCEPT ![p] =
                                [NoReq EXCEPT !.flow = "deco", !.path = DecoPath,
                                    !.key = _get_key(who.identifier, DecoPath),
                                    !.limit = limit_config.limit,
                                    !.window = limit_config.window,
                                    !.now = clock]]
                   /\ pc' = [pc EXCEPT ![p] = "pipe"]
    /\ UNCHANGED <<clock, store, expireAt, decoCfg, tally, served, tracing, usage>>
    /\ UNCHANGED <<gpuVars, ttsVars, wkVars, taskVars, wsVars>>

(***************************************************************************)
(* RateLimitMiddleware.__call__, lines 289-320: up to the await of         *)
(* pipe.execute().                                                         *)
(***************************************************************************)
MiddlewareCall(p) ==
    /\ pc[p] \in {"idle", "done"}
    /\ CanStart
    /\ resp' = [resp EXCEPT ![p] = NoResp]
    /\ \E scopeType \in {"http", "websocket"}, path \in {TTSPath, HealthPath} :
          IF scopeType # "http" \/ StartsWithSkipPath(path)
          THEN \* lines 290-300: passed straight to the application
               /\ req' = [req EXCEPT ![p] = [NoReq EXCEPT !.flow = "mw", !.path = HealthPath]]
               /\ pc' = [pc EXCEPT ![p] = "handler"]
          ELSE LET who == Identify(MiddlewareStateUser)
                   limit_config == get_rate_limit(who.plan, "default")
               IN  /\ req' = [req EXCEPT ![p] =
                                [NoReq EXCEPT !.flow = "mw", !.path = path,
                                    !.key = _get_key(who.identifier, None),
                                    !.limit = limit_config.limit,
                                    !.window = limit_config.window,
                                    !.now = clock]]
                   /\ pc' = [pc EXCEPT ![p] = "pipe"]
    /\ UNCHANGED <<clock, store, expireAt, decoCfg, tally, served, tracing, usage>>
    /\ UNCHANGED <<gpuVars, ttsVars, wkVars, taskVars, wsVars>>

\* is_allowed has returned (or raised): its locals key and now are gone
Returned(r, verdict, failed) ==
    [r EXCEPT !.key = <<>>, !.now = 0, !.verdict = verdict, !.store_failed = failed]

Record(r, verdict) ==
    IF tracing
    THEN [tally EXCEPT ![r.key][r.now][verdict] = @ + 1]
    ELSE tally

(***************************************************************************)
(* is_allowed line 98, results = await pipe.execute(), and the caller's    *)
(* code up to its next await.  When the server cannot be reached or the    *)
(* transaction fails, execute() raises, and nothing in is_allowed, the     *)
(* wrapper or the middleware catches it.                                   *)
(***************************************************************************)
PipeExecute(p) ==
    /\ pc[p] = "pipe"
    /\ \E reachable \in BOOLEAN :
       LET r == req[p] IN
       IF ~reachable
       THEN /\ req' = [req EXCEPT ![p] = Returned(r, "raised", TRUE)]
            /\ resp' = [resp EXCEPT ![p] = ServerErrorResponse]
            /\ pc' = [pc EXCEPT ![p] = "done"]
            /\ tally' = Record(r, "raised")
            /\ UNCHANGED <<store, expireAt>>
       ELSE LET res == is_allowed(store[r.key], r.now, r.limit, r.window)
                verdict == IF res.allowed THEN "allowed" ELSE "denied"
            IN  /\ store' = [store EXCEPT ![r.key] = res.zset]
                /\ expireAt' = [expireAt EXCEPT ![r.key] = expire(clock, r.window + 1)]
                /\ req' = [req EXCEPT ![p] = Returned(r, verdict, FALSE)]
                /\ tally' = Record(r, verdict)
                /\ pc' = [pc EXCEPT ![p] = AfterCheck(res.allowed)]
                /\ resp' = [resp EXCEPT ![p] =
                       IF ~res.allowed
                       THEN RateLimitedResponse(res.info)
                       ELSE IF r.flow = "mw"
                            THEN \* send_with_headers, lines 341-350
                                 [NoResp EXCEPT !.x_limit = Hdr(res.info.limit),
                                                !.x_remaining = Hdr(res.info.remaining),
                                                !.x_reset = Hdr(res.info.reset)]
                            ELSE NoResp]
    /\ UNCHANGED <<clock, decoCfg, served, tracing, usage>>
    /\ UNCHANGED <<gpuVars, ttsVars, wkVars, taskVars, wsVars>>

(***************************************************************************)
(* The handler behind the check.  Behind the decorator: the wrapped func.  *)
(* Behind the middleware: the application, which routes TTSPath to         *)
(* tts.py text_to_speech (lines 20-68) and anything else elsewhere.        *)
(***************************************************************************)
\* what a request presents: nothing, a bearer token (signed and unexpired
\* with a subject; signed without "sub"; or not decodable), or an API key
\* header (a key generate_api_key issued; any other string that starts with
\* "vf_"; a string that does not)
Credentials == {"none", "jwt_valid", "jwt_no_sub", "jwt_invalid",
                "key_issued", "key_vf_unissued", "key_other"}

ValidCredentials == {"jwt_valid", "key_issued"}

\* security.py get_current_user: TRUE when it returns a user, FALSE when it
\* raises the 401 HTTPException
get_current_user(cred) ==
    CASE cred = "jwt_valid"   -> TRUE
      [] cred \in {"jwt_invalid", "jwt_no_sub"} -> FALSE
      [] cred \in {"key_issued", "key_vf_unissued"} -> TRUE
      [] cred \in {"key_other", "none"} -> FALSE

\* schemas/audio.py TTSRequest.text: Field(..., min_length=1, max_length=40000)
MaxTextLength == 40000

TextLengths == {0, 1, MaxTextLength, MaxTextLength + 1}

TTSRequestAccepts(text_len) == text_len >= 1 /\ text_len <= MaxTextLength

text_to_speech(authenticated, tooLong, generated) ==
    IF ~authenticated THEN [status |-> 401, synthesis |-> FALSE]
    ELSE IF tooLong THEN [status |-> 400, synthesis |-> FALSE]
    ELSE IF generated THEN [status |-> 200, synthesis |-> TRUE]
    ELSE [status |-> 500, synthesis |-> TRUE]

\* the route as FastAPI serves it: the dependency get_current_user first,
\* then the validation of the body against TTSRequest (422 on failure), then
\* the handler
TTSRoute(cred, text_len, generated) ==
    IF ~get_current_user(cred) THEN [status |-> 401, synthesis |-> FALSE]
    ELSE IF ~TTSRequestAccepts(text_len) THEN [status |-> 422, synthesis |-> FALSE]
    ELSE text_to_speech(TRUE, text_len > 40000, generated)

Handler(p) ==
    /\ pc[p] = "handler"
    /\ IF req[p].flow = "mw" /\ req[p].path = TTSPath
       THEN \E cred \in Credentials, text_len \in TextLengths, generated \in BOOLEAN :
              LET out == TTSRoute(cred, text_len, generated) IN
              /\ resp' = [resp EXCEPT ![p].status = out.status, ![p].invoked = TRUE]
              /\ served' = IF out.synthesis /\ ~tracing THEN served + 1 ELSE served
       ELSE /\ resp' = [resp EXCEPT ![p].status = 200, ![p].invoked = TRUE]
            /\ served' = served
    /\ pc' = [pc EXCEPT ![p] = "done"]
    /\ UNCHANGED <<clock, store, expireAt, decoCfg, req, tally, tracing, usage>>
    /\ UNCHANGED <<gpuVars, ttsVars, wkVars, taskVars, wsVars>>

\* time passes; Redis drops the keys whose time to live has run out
Tick ==
    /\ clock < EndTime
    /\ clock' = clock + 1
    /\ LET gone == {k \in KeySpace : expireAt[k] # Persistent /\ clock + 1 >= expireAt[k]} IN
       /\ store' = [k \in KeySpace |-> IF k \in gone THEN {} ELSE store[k]]
       /\ expireAt' = [k \in KeySpace |-> IF k \in gone THEN Persistent ELSE expireAt[k]]
    /\ UNCHANGED <<decoCfg, pc, req, resp, tally, served, tracing, usage>>
    /\ UNCHANGED <<gpuVars, ttsVars, wkVars, taskVars, wsVars>>

\* the limiter behind the decorated route and behind the middleware
NextRL ==
    \/ \E p \in Procs : WrapperCall(p)
    \/ \E p \in Procs : MiddlewareCall(p)
    \/ \E p \in Procs : PipeExecute(p)
    \/ \E p \in Procs : Handler(p)
    \/ Tick

\* the text-to-speech route behind the middleware
NextApp ==
    \/ \E p \in Procs : MiddlewareCall(p)
    \/ \E p \in Procs : PipeExecute(p)
    \/ \E p \in Procs : Handler(p)
    \/ Tick

IdleRL ==
    /\ clock = StartTime
    /\ store = EmptyStore
    /\ expireAt = NoExpiry
    /\ decoCfg = [endpoint_type |-> "tts", custom_limit |-> 0, custom_window |-> 0]
    /\ pc = [p \in Procs |-> "idle"]
    /\ req = [p \in Procs |-> NoReq]
    /\ resp = [p \in Procs |-> NoResp]
    /\ tally = NoTally
    /\ served = 0
    /\ tracing = FALSE
    /\ usage = Absent

(***************************************************************************)
(* voice_worker.py: the GPU worker at start, ModelManager.__init__.        *)
(***************************************************************************)
ModelNames == {"tts", "whisper", "sfx", "demucs"}

\* self._tts_model = None; instances are numbered from 1 per model
NoModel == 0

\* the models_loaded of a response that is not a /health response
NoReport == [m \in ModelNames |-> FALSE]

NoWorkerRequest == [pc |-> "idle", endpoint |-> None, input |-> "valid",
                    status |-> 0, accessed |-> FALSE, models_loaded |-> NoReport]

Threads == 1..MaxPreloads

NotSpawned == [pc |-> "none", idx |-> 1]

IdleWorker ==
    /\ models = [m \in ModelNames |-> NoModel]
    /\ built = [m \in ModelNames |-> 0]
    /\ running = [m \in ModelNames |-> 0]
    /\ wreq = [p \in Procs |-> NoWorkerRequest]
    /\ loop = 0
    /\ bg = [t \in Threads |-> NotSpawned]

\* no text-to-speech request is being followed
NoTTSCall == [pc |-> "idle", cred |-> "none", text_len |-> 0, status |-> 0,
              synthesis |-> FALSE]

IdleTTS == ttsCall = [p \in Procs |-> NoTTSCall]

\* no task has been submitted
NoJob == [pc |-> "none", name |-> None, retries |-> 0, runs |-> 0,
          result |-> None, last |-> None]

IdleTasks == job = NoJob

\* no WebSocket request has arrived at this request task
NoSocket == [pc |-> "idle", endpoint |-> None, connection_id |-> 0,
             user_id |-> None, path |-> None]

\* ConnectionManager.__init__ (both dictionaries empty), no handler running
IdleSockets ==
    /\ manager = [active_connections |-> {},
                  user_connections   |-> [u \in {} |-> <<>>]]
    /\ ws = [p \in Procs |-> NoSocket]
    /\ uuids = 0

Init == InitRL(TRUE) /\ InitGPU /\ IdleTTS /\ IdleWorker /\ IdleTasks /\ IdleSockets
Spec == Init /\ [][NextRL]_vars

InitApp == InitRL(FALSE) /\ InitGPU /\ IdleTTS /\ IdleWorker /\ IdleTasks /\ IdleSockets
SpecApp == InitApp /\ [][NextApp]_vars

(***************************************************************************)
(* RateLimiter.get_usage, lines 117-132, called for the identifier and     *)
(* endpoint of the decorated route between the checks of that route.  The  *)
(* two commands are sent one after the other, not in a pipeline; the step  *)
(* is the ZREMRANGEBYSCORE, and what ZCARD then counts is kept in usage.   *)
(***************************************************************************)
\* values of the window_seconds argument: the default and shorter ones
UsageWindows == (1..MaxWindow) \cup {60}

\* lines 127-132 against the stored set zset
get_usage(zset, now, window_seconds) ==
    LET window_start == now - window_seconds
        cleaned      == zremrangebyscore(zset, 0, window_start)
    IN  [zset |-> cleaned, count |-> Cardinality(cleaned)]

GetUsageCall ==
    /\ \E window_seconds \in UsageWindows :
          LET key == _get_key(Account.user_id, DecoPath)
              res == get_usage(store[key], clock, window_seconds)
          IN  /\ store' = [store EXCEPT ![key] = res.zset]
              /\ usage' = Hdr(res.count)
    /\ UNCHANGED <<clock, expireAt, decoCfg, pc, req, resp, tally, served, tracing>>
    /\ UNCHANGED <<gpuVars, ttsVars, wkVars, taskVars, wsVars>>

\* the decorated route and a caller of get_usage
NextUsage ==
    \/ \E p \in Procs : WrapperCall(p)
    \/ \E p \in Procs : PipeExecute(p)
    \/ \E p \in Procs : Handler(p)
    \/ Tick
    \/ GetUsageCall

InitUsage ==
    /\ clock = StartTime
    /\ store = EmptyStore
    /\ expireAt = NoExpiry
    /\ decoCfg \in DecoConfigs
    /\ pc = [p \in Procs |-> "idle"]
    /\ req = [p \in Procs |-> NoReq]
    /\ resp = [p \in Procs |-> NoResp]
    /\ tally = NoTally
    /\ served = 0
    /\ tracing = TRUE
    /\ usage = Absent
    /\ InitGPU /\ IdleTTS /\ IdleWorker /\ IdleTasks /\ IdleSockets

SpecUsage == InitUsage /\ [][NextUsage]_vars

(***************************************************************************)
(* The text-to-speech route on its own, request by request.                *)
(***************************************************************************)
\* the request up to "await tts_service.generate_speech(...)" or its answer
TTSRequestArrives(p) ==
    /\ ttsCall[p].pc \in {"idle", "done"}
    /\ \E cred \in Credentials, text_len \in TextLengths :
         LET out == TTSRoute(cred, text_len, TRUE) IN
         ttsCall' = [ttsCall EXCEPT ![p] =
                        [pc |-> IF out.synthesis THEN "synthesis" ELSE "done",
                         cred |-> cred, text_len |-> text_len,
                         status |-> IF out.synthesis THEN 0 ELSE out.status,
                         synthesis |-> out.synthesis]]
    /\ UNCHANGED <<rlVars, gpuVars, wkVars, taskVars, wsVars>>

\* generate_speech returns or raises
TTSSynthesisEnds(p) ==
    /\ ttsCall[p].pc = "synthesis"
    /\ \E generated \in BOOLEAN :
         ttsCall' = [ttsCall EXCEPT
                        ![p].pc = "done",
                        ![p].status = TTSRoute(ttsCall[p].cred, ttsCall[p].text_len,
                                               generated).status]
    /\ UNCHANGED <<rlVars, gpuVars, wkVars, taskVars, wsVars>>

NextTTS ==
    \/ \E p \in Procs : TTSRequestArrives(p)
    \/ \E p \in Procs : TTSSynthesisEnds(p)

InitTTS == IdleRL /\ InitGPU /\ IdleTTS /\ IdleWorker /\ IdleTasks /\ IdleSockets

SpecTTS == InitTTS /\ [][NextTTS]_vars

(***************************************************************************)
(* gpu_client.py: RemoteGPUClient.  One inference call at a time; the      *)
(* worker's answer to each attempt is any of Answers.                      *)
(***************************************************************************)
Ops == {"generate_tts", "transcribe_audio", "generate_sound_effect",
        "isolate_vocals", "clone_voice"}

\* what one awaited client.post + raise_for_status (+ .json()) can produce:
\* a 2xx body, an HTTPStatusError (4xx, 5xx), a RequestError (connection
\* error, timeout) or any other exception raised inside the try block
Answers == {"ok", "http_4xx", "http_5xx", "connect_error", "timeout", "other_error"}

Transient == {"http_5xx", "connect_error", "timeout"}

\* httpx refuses to send on a closed AsyncClient: RuntimeError, nothing sent
ClientClosed == "client_closed"

ExceptionClass(a) ==
    CASE a \in {"http_4xx", "http_5xx"}     -> "HTTPStatusError"
      [] a \in {"connect_error", "timeout"} -> "RequestError"
      [] a = "other_error"                  -> "Exception"
      [] a = ClientClosed                   -> "RuntimeError"

\* the except clauses of each loop: generate_tts and transcribe_audio name
\* HTTPStatusError and RequestError, the other three catch Exception
Caught(op, a) ==
    IF op \in {"generate_tts", "transcribe_audio"}
    THEN ExceptionClass(a) \in {"HTTPStatusError", "RequestError"}
    ELSE TRUE

\* get_gpu_worker_config: GPU_WORKER_MODE and GPU_WORKER_RETRY
Configs ==
    {[enabled |-> e, retry_attempts |-> r] : e \in BOOLEAN, r \in (0 - 1)..MaxRetry}

EnabledCheck_Skipped(cfg) == TRUE

\* "if not self.config.enabled: raise RuntimeError(...)"
EnabledCheck(cfg) == cfg.enabled

LastAttempt_OffByOne(i, retry_attempts) == i = retry_attempts

\* "if attempt == self.config.retry_attempts - 1: raise"
LastAttempt(i, retry_attempts) == i = retry_attempts - 1

Reraise_First(errors) == errors[1]

\* the bare "raise" inside the except clause re-raises the exception being
\* handled, which is the error of the attempt just made
Reraise(errors) == errors[Len(errors)]

IsOpen(h, hs) == h # NoHandle /\ hs[h] = "open"

OpenHandles(hs) == {h \in 1..Len(hs) : hs[h] = "open"}

_get_client_AlwaysNew(c, hs) ==
    [client |-> Len(hs) + 1, handles |-> Append(hs, "open")]

\* _get_client: "if self._client is None or self._client.is_closed" a new
\* AsyncClient is created and kept; otherwise the kept one is returned
_get_client(c, hs) ==
    IF c = NoHandle \/ hs[c] = "closed"
    THEN [client |-> Len(hs) + 1, handles |-> Append(hs, "open")]
    ELSE [client |-> c, handles |-> hs]

\* the model creates at most MaxHandles handles
CanGetClient == IsOpen(client, handles) \/ Len(handles) < MaxHandles

\* what an attempt on handle h can produce
SendOutcomes(h, hs) == IF IsOpen(h, hs) THEN Answers ELSE {ClientClosed}

\* whether the worker can have run the operation when the client sees a:
\* it has for a 2xx answer; it has not when no connection was made or when
\* the worker itself answered with an error status (its handlers turn any
\* exception into a 500); after a timeout or a failure while the response
\* was being received it may or may not have
WorkerReached(a) ==
    CASE a = "ok"                                            -> {TRUE}
      [] a \in {"timeout", "other_error"}                    -> {TRUE, FALSE}
      [] a \in {"http_4xx", "http_5xx", "connect_error", ClientClosed} -> {FALSE}

WorkerRuns_Deduplicating(op, alreadyCompleted) == ~alreadyCompleted

\* voice_worker.py: each handler runs the operation on every request it is
\* given; no request carries a token and no handler looks for an earlier
\* identical request
WorkerRuns(op, alreadyCompleted) == TRUE

\* operations that post files=... and data=...; the others post json=payload
MultipartOps == {"transcribe_audio", "isolate_vocals", "clone_voice"}

\* the audio bytes the caller passed, chunk by chunk
FileBytes == [i \in 1..FileLen |-> i]

Rewind_Missing(pos) == pos

\* httpx encodes files=... anew for each post(): before it reads a file
\* object that can seek, it calls seek(0) on it
Rewind(pos) == 0

\* file.read() of the io.BytesIO from position pos to its end
ReadToEnd(pos) == [i \in 1..(FileLen - pos) |-> FileBytes[pos + i]]

\* the body of one post(): the payload / data dictionary, which is built
\* once before the loop and never written to, stands for its content; the
\* file part is what the encoder reads from the shared io.BytesIO
RequestBody(op, pos) ==
    [fields |-> op,
     file   |-> IF op \in MultipartOps THEN ReadToEnd(Rewind(pos)) ELSE <<>>]

\* where an attempt that ended with a can leave the io.BytesIO: at its end
\* when the body went out in full, at the start when no connection was
\* made, anywhere when the attempt broke off
PositionsAfter(op, a, pos) ==
    IF op \notin MultipartOps THEN {pos}
    ELSE IF a = "connect_error" THEN {Rewind(pos)}
    ELSE IF a \in {"timeout", "other_error"} THEN Rewind(pos)..FileLen
    ELSE {FileLen}

\* the call up to its first await: the enabled check, _get_client(), the
\* payload, and the entry into "for attempt in range(retry_attempts)"
InferenceCall(op) ==
    /\ gpc \in {"idle", "done"}
    /\ CanGetClient
    /\ gop' = op
    /\ respLog' = <<>>
    /\ sent' = 0
    /\ attempt' = 0
    /\ IF ~EnabledCheck(config)
       THEN /\ outcome' = "raised"
            /\ raisedErr' = "RuntimeError"
            /\ gpc' = "done"
            /\ UNCHANGED <<client, handles, local>>
       ELSE /\ LET got == _get_client(client, handles) IN
               /\ client' = got.client
               /\ handles' = got.handles
               /\ local' = got.client
            /\ raisedErr' = None
            /\ IF 0 < config.retry_attempts
               THEN outcome' = "none" /\ gpc' = "attempt"
               ELSE \* range() is empty: the function body ends
                    outcome' = "returned_none" /\ gpc' = "done"
    /\ worked' = <<>>
    /\ completed' = 0
    /\ upload' = NoUpload
    /\ UNCHANGED <<config, probe, environ, singleton, answer>>
    /\ UNCHANGED <<rlVars, ttsVars, wkVars, taskVars, wsVars>>

\* the loop body after the answers to attempts 0..i have come in, the last
\* of answers being the answer to attempt i: where the call stands
AfterAnswer(op, i, retry_attempts, answers) ==
    LET a == answers[Len(answers)] IN
    IF a = "ok"
    THEN \* return response.content / response.json()
         [gpc |-> "done", outcome |-> "returned", raisedErr |-> None, attempt |-> i]
    ELSE IF ~Caught(op, a)
    THEN \* no except clause matches: the exception leaves the call
         [gpc |-> "done", outcome |-> "raised", raisedErr |-> a, attempt |-> i]
    ELSE IF LastAttempt(i, retry_attempts)
    THEN [gpc |-> "done", outcome |-> "raised", raisedErr |-> Reraise(answers),
          attempt |-> i]
    ELSE IF i + 1 < retry_attempts
    THEN \* logged; the loop goes on to the next attempt
         [gpc |-> "attempt", outcome |-> "none", raisedErr |-> None, attempt |-> i + 1]
    ELSE \* range() exhausted: the function body ends
         [gpc |-> "done", outcome |-> "returned_none", raisedErr |-> None,
          attempt |-> i]

\* attempt i and the attempts after it when the handle in the local variable
\* "client" is closed: post() raises without suspending, so the loop runs on
\* to its end (or to an exception it does not catch) within the same step
RECURSIVE OnClosedHandle(_, _, _, _)
OnClosedHandle(op, i, retry_attempts, log) ==
    LET answers == Append(log, ClientClosed)
        next    == AfterAnswer(op, i, retry_attempts, answers)
    IN  IF next.gpc = "attempt"
        THEN OnClosedHandle(op, next.attempt, retry_attempts, answers)
        ELSE [ctl |-> next, log |-> answers]

\* one pass of the loop body: the request that was sent is answered and the
\* answer handled, up to the next "await client.post(...)" that suspends.
\* The handle was open when the request went out (close() may have run
\* since); the next post() finds the handle as it is now.
Attempt ==
    /\ gpc = "attempt"
    /\ \E a \in Answers :
         LET answers == Append(respLog, a)
             next    == AfterAnswer(gop, attempt, config.retry_attempts, answers)
             run     == IF next.gpc = "attempt"
                           /\ SendOutcomes(local, handles) = {ClientClosed}
                        THEN OnClosedHandle(gop, next.attempt,
                                            config.retry_attempts, answers)
                        ELSE [ctl |-> next, log |-> answers]
             refused == Len(run.log) - Len(answers)
         IN  /\ respLog' = run.log
             /\ sent' = sent + 1
             /\ \E pos \in PositionsAfter(gop, a, upload.pos) :
                  upload' = [pos    |-> pos,
                             bodies |-> Append(upload.bodies,
                                               RequestBody(gop, upload.pos))]
             /\ \E reached \in WorkerReached(a) :
                  /\ worked' = Append(worked, reached) \o [k \in 1..refused |-> FALSE]
                  /\ completed' = IF reached /\ WorkerRuns(gop, completed > 0)
                                  THEN completed + 1 ELSE completed
             /\ gpc' = run.ctl.gpc
             /\ outcome' = run.ctl.outcome
             /\ raisedErr' = run.ctl.raisedErr
             /\ attempt' = run.ctl.attempt
    /\ UNCHANGED <<config, gop, client, handles, local, probe, environ, singleton, answer>>
    /\ UNCHANGED <<rlVars, ttsVars, wkVars, taskVars, wsVars>>

\* close(): "if self._client and not self._client.is_closed: aclose()"
close ==
    /\ handles' = IF IsOpen(client, handles)
                  THEN [handles EXCEPT ![client] = "closed"]
                  ELSE handles
    /\ handles' # handles
    /\ UNCHANGED <<config, gpc, gop, attempt, respLog, outcome, raisedErr, sent,
                   client, local, probe, worked, completed, upload, environ, singleton, answer>>
    /\ UNCHANGED <<rlVars, ttsVars, wkVars, taskVars, wsVars>>

HealthCaught_HttpxOnly(a) == ExceptionClass(a) \in {"HTTPStatusError", "RequestError"}

\* health_check: "except Exception as e" around the whole body
HealthCaught(a) == TRUE

\* health_check up to "await client.get('/health')": no enabled check, no loop
HealthCheckSend ==
    /\ probe.pc \in {"idle", "done"}
    /\ CanGetClient
    /\ LET got == _get_client(client, handles) IN
       /\ client' = got.client
       /\ handles' = got.handles
    /\ probe' = [pc |-> "waiting", sent |-> 1, result |-> None, raised |-> FALSE]
    /\ UNCHANGED <<config, gpc, gop, attempt, respLog, outcome, raisedErr, sent, local,
                   worked, completed, upload, environ, singleton, answer>>
    /\ UNCHANGED <<rlVars, ttsVars, wkVars, taskVars, wsVars>>

\* the answer to that GET: response.json() is returned, or the exception is
\* logged and {"status": "offline", "error": str(e)} is returned
HealthCheckAnswer ==
    /\ probe.pc = "waiting"
    /\ \E a \in Answers :
         probe' = IF a = "ok"
                  THEN [probe EXCEPT !.pc = "done", !.result = "worker_status"]
                  ELSE IF HealthCaught(a)
                  THEN [probe EXCEPT !.pc = "done", !.result = "offline"]
                  ELSE [probe EXCEPT !.pc = "done", !.result = a, !.raised = TRUE]
    /\ UNCHANGED <<config, gpc, gop, attempt, respLog, outcome, raisedErr, sent,
                   client, handles, local, worked, completed, upload, environ, singleton, answer>>
    /\ UNCHANGED <<rlVars, ttsVars, wkVars, taskVars, wsVars>>

NextGPU ==
    \/ \E op \in Ops : InferenceCall(op)
    \/ Attempt
    \/ close
    \/ HealthCheckSend
    \/ HealthCheckAnswer

InitClient ==
    /\ IdleRL
    /\ IdleTTS
    /\ IdleWorker
    /\ IdleTasks
    /\ IdleSockets
    /\ config \in Configs
    /\ gpc = "idle"
    /\ gop = None
    /\ attempt = 0
    /\ respLog = <<>>
    /\ outcome = "none"
    /\ raisedErr = None
    /\ sent = 0
    /\ client = NoHandle
    /\ handles = <<>>
    /\ local = NoHandle
    /\ probe = NoProbe
    /\ worked = <<>>
    /\ completed = 0
    /\ upload = NoUpload
    /\ environ = UnsetEnviron
    /\ singleton = FALSE
    /\ answer = Absent

SpecGPU == InitClient /\ [][NextGPU]_vars

(***************************************************************************)
(* gpu_client.py: the configuration read from the environment, the         *)
(* singleton client and is_remote_gpu_enabled.                             *)
(***************************************************************************)
DefaultMode == "local"

\* values GPU_WORKER_MODE and GPU_WORKER_RETRY take in the environment
Environs ==
    [GPU_WORKER_MODE  : {Absent, Hdr("local"), Hdr("remote")},
     GPU_WORKER_RETRY : {Absent} \cup {Hdr(r) : r \in 0..MaxRetry}]

\* os.environ.get(name, default)
EnvGet(value, default) == IF value = Absent THEN default ELSE value[1]

\* get_gpu_worker_config: enabled = (mode == "remote"), retry_attempts =
\* int(GPU_WORKER_RETRY or "3"); url and timeout play no part here
get_gpu_worker_config(env) ==
    [enabled        |-> EnvGet(env.GPU_WORKER_MODE, DefaultMode) = "remote",
     retry_attempts |-> EnvGet(env.GPU_WORKER_RETRY, 3)]

\* is_remote_gpu_enabled: "return get_gpu_worker_config().enabled"
is_remote_gpu_enabled(env) == get_gpu_worker_config(env).enabled

\* the process environment is changed (os.environ, a redeployed setting)
SetEnviron ==
    /\ \E env \in Environs : environ' = env
    /\ environ' # environ
    /\ UNCHANGED <<config, gpc, gop, attempt, respLog, outcome, raisedErr, sent,
                   client, handles, local, probe, worked, completed, upload, singleton, answer>>
    /\ UNCHANGED <<rlVars, ttsVars, wkVars, taskVars, wsVars>>

\* get_gpu_client: the first call constructs RemoteGPUClient(), whose
\* __init__ reads the environment; later calls return the same object
get_gpu_client ==
    /\ IF singleton
       THEN UNCHANGED <<singleton, config>>
       ELSE /\ singleton' = TRUE
            /\ config' = get_gpu_worker_config(environ)
    /\ UNCHANGED <<gpc, gop, attempt, respLog, outcome, raisedErr, sent,
                   client, handles, local, probe, worked, completed, upload, environ, answer>>
    /\ UNCHANGED <<rlVars, ttsVars, wkVars, taskVars, wsVars>>

IsRemoteGpuEnabledCall ==
    /\ answer' = Hdr([value |-> is_remote_gpu_enabled(environ),
                      clientExisted |-> singleton])
    /\ UNCHANGED <<config, gpc, gop, attempt, respLog, outcome, raisedErr, sent,
                   client, handles, local, probe, worked, completed, upload, environ, singleton>>
    /\ UNCHANGED <<rlVars, ttsVars, wkVars, taskVars, wsVars>>

NextConfig ==
    \/ SetEnviron
    \/ get_gpu_client
    \/ IsRemoteGpuEnabledCall

\* the process has started; nothing of gpu_client.py has been called yet
InitConfig ==
    /\ IdleRL
    /\ IdleTTS
    /\ IdleWorker
    /\ IdleTasks
    /\ IdleSockets
    /\ environ \in Environs
    /\ singleton = FALSE
    /\ answer = Absent
    /\ config = [enabled |-> FALSE, retry_attempts |-> 0]
    /\ gpc = "idle"
    /\ gop = None
    /\ attempt = 0
    /\ respLog = <<>>
    /\ outcome = "none"
    /\ raisedErr = None
    /\ sent = 0
    /\ client = NoHandle
    /\ handles = <<>>
    /\ local = NoHandle
    /\ probe = NoProbe
    /\ worked = <<>>
    /\ completed = 0
    /\ upload = NoUpload

SpecConfig == InitConfig /\ [][NextConfig]_vars

(***************************************************************************)
(* voice_worker.py: the GPU worker.  One process, one event loop (uvicorn  *)
(* workers=1): the async handlers run on the loop and give it up only at   *)
(* an await; the load_all function that /models/preload hands to           *)
(* BackgroundTasks is a plain def, which Starlette runs in a threadpool    *)
(* thread, beside the loop.                                                *)
(***************************************************************************)
Endpoints == {"/health", "/tts/generate", "/stt/transcribe", "/sfx/generate",
              "/isolation/separate", "/voice/clone", "/models/preload", "/gpu/info"}

\* the model each handler uses; clone_voice uses none
EndpointModel(e) ==
    CASE e = "/tts/generate"       -> "tts"
      [] e = "/stt/transcribe"     -> "whisper"
      [] e = "/sfx/generate"       -> "sfx"
      [] e = "/isolation/separate" -> "demucs"
      [] OTHER                     -> None

\* handlers that take UploadFile parameters and "await audio.read()"
Uploads == {"/stt/transcribe", "/isolation/separate", "/voice/clone"}

\* handlers that call torchaudio.load on the upload before any model access
Decodes == {"/isolation/separate", "/voice/clone"}

\* load_all: tts, whisper, sfx, demucs in this order
LoadOrder == <<"tts", "whisper", "sfx", "demucs">>

\* the kinds of request body an endpoint is sent
Inputs(e) ==
    CASE e = "/tts/generate" -> {"valid", "missing_field", "too_long", "unsupported_format"}
      [] e = "/sfx/generate" -> {"valid", "missing_field", "too_long", "out_of_range"}
      [] e \in Uploads       -> {"valid", "missing_field", "unreadable_audio"}
      [] OTHER               -> {"valid"}

\* FastAPI's validation of the body before the handler is called: TTSRequest
\* (text required, max_length 5000; output_format is any str), SFXRequest
\* (prompt required, max_length 500; duration 1..30; steps 10..200),
\* File(...) and Form(...) parameters (required).  TRUE: the handler is called
RequestValidation(e, input) ==
    input \notin {"missing_field", "too_long", "out_of_range"}

\* where a handler is not on the event loop: before it is first run, and at
\* its "await audio.read()"
Suspended_Everywhere(stage) == TRUE

Suspended(stage) == stage \in {"start", "reading"}

\* ModelManager property getters: "if self._x_model is None"
NeedsLoad(mgr, m) == mgr[m] = NoModel

HealthView_ViaProperties(mgr) ==
    [mgr |-> [m \in ModelNames |-> IF mgr[m] = NoModel THEN 1 ELSE mgr[m]],
     models_loaded |-> [m \in ModelNames |-> TRUE]]

\* /health: models_loaded is read from the private fields, "models._tts_model
\* is not None" and so on; the property getters are not used
HealthView(mgr) ==
    [mgr |-> mgr, models_loaded |-> [m \in ModelNames |-> mgr[m] # NoModel]]

FreeThreads == {t \in Threads : bg[t].pc = "none"}

\* a request reaches the worker and is validated
WorkerRequest(p) ==
    /\ wreq[p].pc \in {"idle", "done"}
    /\ loop = 0
    /\ \E e \in Endpoints : \E input \in Inputs(e) :
         /\ e = "/models/preload" => FreeThreads # {}
         /\ wreq' = [wreq EXCEPT ![p] =
                        IF RequestValidation(e, input)
                        THEN [pc |-> "start", endpoint |-> e, input |-> input,
                              status |-> 0, accessed |-> FALSE,
                              models_loaded |-> NoReport]
                        ELSE [pc |-> "done", endpoint |-> e, input |-> input,
                              status |-> 422, accessed |-> FALSE,
                              models_loaded |-> NoReport]]
    /\ UNCHANGED <<models, built, running, loop, bg>>
    /\ UNCHANGED <<rlVars, gpuVars, ttsVars, taskVars, wsVars>>

\* the event loop runs handler p up to its next stage
WorkerStep(p) ==
    LET r == wreq[p]
        e == r.endpoint
        m == EndpointModel(e)
        Answer(stage, status, acc, loaded) ==
            /\ wreq' = [wreq EXCEPT ![p].pc = stage, ![p].status = status,
                                    ![p].accessed = acc,
                                    ![p].models_loaded = loaded]
            /\ loop' = IF Suspended(stage) \/ stage = "done" THEN 0 ELSE p
        Goes(stage, status, acc) == Answer(stage, status, acc, NoReport)
    IN
    /\ r.pc \notin {"idle", "done"}
    /\ IF Suspended(r.pc) THEN loop = 0 ELSE loop = p
    /\ CASE r.pc = "start" /\ e = "/health" ->
              /\ Answer("done", 200, FALSE, HealthView(models).models_loaded)
              /\ models' = HealthView(models).mgr
              /\ UNCHANGED <<built, running, bg>>
         [] r.pc = "start" /\ e = "/gpu/info" ->
              /\ Goes("done", 200, FALSE)
              /\ UNCHANGED <<models, built, running, bg>>
         [] r.pc = "start" /\ e = "/models/preload" ->
              \* background_tasks.add_task(load_all)
              /\ FreeThreads # {}
              /\ Goes("done", 200, FALSE)
              /\ LET t == CHOOSE x \in FreeThreads : \A y \in FreeThreads : x <= y IN
                 bg' = [bg EXCEPT ![t] = [pc |-> "check", idx |-> 1]]
              /\ UNCHANGED <<models, built, running>>
         [] r.pc = "start" /\ e \in Uploads ->
              /\ Goes("reading", 0, FALSE)
              /\ UNCHANGED <<models, built, running, bg>>
         [] r.pc = "start" /\ m # None /\ e \notin Uploads ->
              /\ Goes("access", 0, FALSE)
              /\ UNCHANGED <<models, built, running, bg>>
         [] r.pc = "reading" ->
              /\ IF e \in Decodes /\ r.input = "unreadable_audio"
                 THEN \* torchaudio.load raises; "except Exception" answers 500
                      Goes("done", 500, FALSE)
                 ELSE IF m = None
                 THEN Goes("done", 200, FALSE)
                 ELSE Goes("access", 0, FALSE)
              /\ UNCHANGED <<models, built, running, bg>>
         [] r.pc = "access" ->
              \* models.tts / .whisper / .sfx / .demucs: the getter's test
              /\ IF NeedsLoad(models, m)
                 THEN /\ Goes("loading", 0, TRUE)
                      /\ UNCHANGED running
                 ELSE /\ Goes("infer", 0, TRUE)
                      /\ running' = [running EXCEPT ![m] = @ + 1]
              /\ UNCHANGED <<models, built, bg>>
         [] r.pc = "loading" ->
              \* the model is constructed and assigned; the getter returns it
              \* and the inference call starts
              /\ Goes("infer", 0, TRUE)
              /\ models' = [models EXCEPT ![m] = built[m] + 1]
              /\ built' = [built EXCEPT ![m] = @ + 1]
              /\ running' = [running EXCEPT ![m] = @ + 1]
              /\ UNCHANGED bg
         [] r.pc = "infer" ->
              \* the inference call returns, or raises on an upload it cannot
              \* read ("except Exception": 500)
              /\ Goes("done", IF r.input = "unreadable_audio" THEN 500 ELSE 200, TRUE)
              /\ running' = [running EXCEPT ![m] = @ - 1]
              /\ UNCHANGED <<models, built, bg>>
    /\ UNCHANGED <<rlVars, gpuVars, ttsVars, taskVars, wsVars>>

\* a threadpool thread running load_all makes one step of a getter
PreloadStep(t) ==
    LET m == LoadOrder[bg[t].idx]
        Advance == IF bg[t].idx < Len(LoadOrder)
                   THEN [pc |-> "check", idx |-> bg[t].idx + 1]
                   ELSE [pc |-> "finished", idx |-> bg[t].idx]
    IN
    /\ bg[t].pc \in {"check", "loading"}
    /\ IF bg[t].pc = "check"
       THEN /\ bg' = [bg EXCEPT ![t] = IF NeedsLoad(models, m)
                                       THEN [pc |-> "loading", idx |-> bg[t].idx]
                                       ELSE Advance]
            /\ UNCHANGED <<models, built>>
       ELSE /\ models' = [models EXCEPT ![m] = built[m] + 1]
            /\ built' = [built EXCEPT ![m] = @ + 1]
            /\ bg' = [bg EXCEPT ![t] = Advance]
    /\ UNCHANGED <<running, wreq, loop>>
    /\ UNCHANGED <<rlVars, gpuVars, ttsVars, taskVars, wsVars>>

NextWorker ==
    \/ \E p \in Procs : WorkerRequest(p)
    \/ \E p \in Procs : WorkerStep(p)
    \/ \E t \in Threads : PreloadStep(t)

InitWorker == IdleRL /\ InitGPU /\ IdleTTS /\ IdleWorker /\ IdleTasks /\ IdleSockets

SpecWorker == InitWorker /\ [][NextWorker]_vars

(***************************************************************************)
(* workers/celery_app.py and workers/tasks: the Celery inference tasks.    *)
(* A submitted task is a message on its queue; a worker process takes the  *)
(* message and runs the task body; self.retry() puts the message back with *)
(* request.retries increased by one.  celery_app.py sets task_acks_late    *)
(* and task_reject_on_worker_lost: the message of a run whose worker       *)
(* process is lost goes back on the queue as it is.                        *)
(***************************************************************************)
\* max_retries of the task decorators
TaskMaxRetries ==
    [tts_generate |-> 3, stt_transcribe |-> 3, sfx_generate |-> 3, voice_clone |-> 2]

\* "if self.request.retries < self.max_retries: raise self.retry(...)"
ShouldRetry(retries, max_retries) == retries < max_retries

\* task.delay(...) / apply_async(...)
SubmitTask ==
    /\ job.pc \in {"none", "done"}
    /\ \E name \in DOMAIN TaskMaxRetries :
         job' = [NoJob EXCEPT !.pc = "queued", !.name = name]
    /\ UNCHANGED <<rlVars, gpuVars, ttsVars, wkVars, wsVars>>

\* one run of the task body by a worker process.  The body returns its
\* success dictionary; or an Exception (SoftTimeLimitExceeded included)
\* reaches "except Exception", where update_state is called (and raises when
\* the result backend cannot be reached) before the retry test; or the run
\* outlasts time_limit and the process is killed, which ends the task as
\* failed with TimeLimitExceeded; or the worker process is lost.
RunTask ==
    /\ job.pc = "queued"
    /\ job.runs < MaxRuns
    /\ \E body \in {"returned", "exception", "time_limit", "worker_lost"},
          stored \in BOOLEAN :
         LET run == [job EXCEPT !.runs = @ + 1, !.last = body] IN
         job' = CASE body = "returned" ->
                       [run EXCEPT !.pc = "done", !.result = "success_true"]
                  [] body = "worker_lost" -> run
                  [] body = "time_limit" ->
                       [run EXCEPT !.pc = "done", !.result = "TimeLimitExceeded"]
                  [] body = "exception" ->
                       IF ~stored
                       THEN [run EXCEPT !.pc = "done", !.result = "raised"]
                       ELSE IF ShouldRetry(job.retries, TaskMaxRetries[job.name])
                       THEN [run EXCEPT !.retries = @ + 1]
                       ELSE [run EXCEPT !.pc = "done", !.result = "success_false"]
    /\ UNCHANGED <<rlVars, gpuVars, ttsVars, wkVars, wsVars>>

NextTasks == SubmitTask \/ RunTask

InitTasks == IdleRL /\ InitGPU /\ IdleTTS /\ IdleWorker /\ IdleTasks /\ IdleSockets

SpecTasks == InitTasks /\ [][NextTasks]_vars

(***************************************************************************)
(* api/v1/endpoints/websocket.py: the ConnectionManager and the handlers   *)
(* of /ws/tts, /ws/stt and /ws/conversation.  The handlers are coroutines  *)
(* on one event loop; a step runs a handler from one await that suspends   *)
(* to the next.                                                            *)
(***************************************************************************)
\* authenticate_websocket: <<>> for None (the socket was closed with 4001),
\* else the user dictionary; a token without "sub" gives user_id None
authenticate_websocket(token) ==
    IF token \in {"missing", "invalid"} THEN <<>>
    ELSE <<[user_id |-> IF token = "no_sub" THEN None ELSE token]>>

\* list.remove(x): the first occurrence of x leaves the list
ListRemove(list, x) ==
    LET i == CHOOSE k \in 1..Len(list) :
                 list[k] = x /\ \A j \in 1..(k - 1) : list[j] # x
    IN  SubSeq(list, 1, i - 1) \o SubSeq(list, i + 1, Len(list))

\* ConnectionManager.connect after "await websocket.accept()" has returned
connect(mgr, connection_id, user_id) ==
    LET uc == mgr.user_connections IN
    [active_connections |-> mgr.active_connections \cup {connection_id},
     user_connections   |->
        IF user_id # None
        THEN IF user_id \in DOMAIN uc
             THEN [uc EXCEPT ![user_id] = Append(@, connection_id)]
             ELSE uc @@ (user_id :> <<connection_id>>)
        ELSE uc]

disconnect_ActiveOnly(mgr, connection_id, user_id) ==
    [mgr EXCEPT !.active_connections = @ \ {connection_id}]

\* ConnectionManager.disconnect
disconnect(mgr, connection_id, user_id) ==
    LET uc == mgr.user_connections IN
    [active_connections |-> mgr.active_connections \ {connection_id},
     user_connections   |->
        IF user_id # None /\ user_id \in DOMAIN uc
        THEN IF \E k \in 1..Len(uc[user_id]) : uc[user_id][k] = connection_id
             THEN [uc EXCEPT ![user_id] = ListRemove(@, connection_id)]
             ELSE uc
        ELSE uc]

\* a handler from its start to "await websocket.accept()" inside connect
WsOpen(p) ==
    /\ ws[p].pc \in {"idle", "returned"}
    /\ uuids < MaxConnections
    /\ \E endpoint \in {"/ws/tts", "/ws/stt", "/ws/conversation"},
          token \in {"missing", "invalid", "no_sub", "u1", "u2"} :
         LET user == authenticate_websocket(token) IN
         IF user = <<>>
         THEN /\ ws' = [ws EXCEPT ![p] = [NoSocket EXCEPT !.pc = "returned",
                                              !.endpoint = endpoint,
                                              !.path = "unauthenticated"]]
              /\ uuids' = uuids
         ELSE /\ ws' = [ws EXCEPT ![p] = [NoSocket EXCEPT !.pc = "accepting",
                                              !.endpoint = endpoint,
                                              !.connection_id = uuids + 1,
                                              !.user_id = user[1].user_id]]
              /\ uuids' = uuids + 1
    /\ UNCHANGED manager
    /\ UNCHANGED <<rlVars, gpuVars, ttsVars, wkVars, taskVars>>

\* accept() returns and connect registers the connection, or accept() raises
\* and the exception leaves the handler, which has not entered its try
WsAccept(p) ==
    /\ ws[p].pc = "accepting"
    /\ \E accepted \in BOOLEAN :
         IF accepted
         THEN /\ manager' = connect(manager, ws[p].connection_id, ws[p].user_id)
              /\ ws' = [ws EXCEPT ![p].pc = "serving"]
         ELSE /\ manager' = manager
              /\ ws' = [ws EXCEPT ![p].pc = "returned", ![p].path = "accept_failed"]
    /\ UNCHANGED uuids
    /\ UNCHANGED <<rlVars, gpuVars, ttsVars, wkVars, taskVars>>

\* the try block, from one await to the next: a message is handled and the
\* loop goes on; or the end message, the client's disconnect, an exception or
\* the cancellation of the handler's task ends the loop.  The finally clause
\* calls manager.disconnect; in websocket_stt "except Exception" first
\* awaits manager.send_json.
WsServe(p) ==
    /\ ws[p].pc = "serving"
    /\ \E event \in {"message", "end", "disconnect", "exception", "cancelled"} :
         IF event = "message"
         THEN UNCHANGED <<manager, ws>>
         ELSE IF event = "exception" /\ ws[p].endpoint = "/ws/stt"
         THEN /\ ws' = [ws EXCEPT ![p].pc = "reporting"]
              /\ manager' = manager
         ELSE /\ manager' = disconnect(manager, ws[p].connection_id, ws[p].user_id)
              /\ ws' = [ws EXCEPT ![p].pc = "returned", ![p].path = event]
    /\ UNCHANGED uuids
    /\ UNCHANGED <<rlVars, gpuVars, ttsVars, wkVars, taskVars>>

\* websocket_stt, lines 275-282: send_json in the except block returns or
\* raises; the finally clause runs in both cases
WsReport(p) ==
    /\ ws[p].pc = "reporting"
    /\ \E reported \in BOOLEAN :
         /\ manager' = disconnect(manager, ws[p].connection_id, ws[p].user_id)
         /\ ws' = [ws EXCEPT ![p].pc = "returned",
                             ![p].path = IF reported THEN "exception"
                                         ELSE "exception_in_except"]
    /\ UNCHANGED uuids
    /\ UNCHANGED <<rlVars, gpuVars, ttsVars, wkVars, taskVars>>

NextWS ==
    \/ \E p \in Procs : WsOpen(p)
    \/ \E p \in Procs : WsAccept(p)
    \/ \E p \in Procs : WsServe(p)
    \/ \E p \in Procs : WsReport(p)

InitWS == IdleRL /\ InitGPU /\ IdleTTS /\ IdleWorker /\ IdleTasks /\ IdleSockets

SpecWS == InitWS /\ [][NextWS]_vars

(***************************************************************************)
(* Properties of the rate limiter (Spec) and of the application (SpecApp). *)
(***************************************************************************)
Min(a, b) == IF a <= b THEN a ELSE b

DecoKey == _get_key(Account.user_id, DecoPath)
MwKey   == _get_key(ClientHost, None)

\* the limit and window every is_allowed call on key k is made with
KeyConfig(k) ==
    IF k = DecoKey THEN WrapperLimitConfig(decoCfg, Account.plan)
                   ELSE get_rate_limit("free", "default")

\* the clock values that calls on key k observed
Observed(k) == {t \in Times : Calls(k, {t}) > 0}

\* all calls on key k so far lie inside one window: the clock values they
\* observed and the moments at which they ran
OneWindow(k) ==
    /\ \A a, b \in Observed(k) : b - a < KeyConfig(k).window
    /\ \A a \in Observed(k) : clock - a < KeyConfig(k).window

\* C1: for every key, with its limit L and window W, the calls admitted
\* with timestamps inside any interval [s, s + W) number at most L.
C1_AdmittedWithinLimit ==
    \A k \in KeySpace : \A s \in Times :
        Count(k, "allowed", s..(s + KeyConfig(k).window - 1)) <= KeyConfig(k).limit

\* C2: when N >= L calls on a key whose window was empty have completed, all
\* inside one window and none failing, exactly L were admitted and N - L
\* rejected, whatever clock values they observed.
C2_ExactlyLimitAdmitted ==
    LET L == KeyConfig(DecoKey).limit
        N == Calls(DecoKey, Times)
    IN  (N >= L /\ Count(DecoKey, "raised", Times) = 0 /\ OneWindow(DecoKey))
            => /\ Count(DecoKey, "allowed", Times) = L
               /\ Count(DecoKey, "denied", Times) = N - L

\* C3: on a key with limit L and window W, the first L calls at time t are
\* admitted and one more call at t is rejected; a call at t + W + 1 that
\* follows them is admitted again.
C3_WindowScenario ==
    LET L == KeyConfig(DecoKey).limit
        W == KeyConfig(DecoKey).window
    IN  \A t \in Times :
          /\ ( /\ clock = t
               /\ Calls(DecoKey, Times) = Calls(DecoKey, {t})
               /\ Calls(DecoKey, {t}) <= L + 1
               /\ Count(DecoKey, "raised", Times) = 0 )
                => Count(DecoKey, "allowed", {t}) = Min(Calls(DecoKey, {t}), L)
          /\ ( /\ t + W + 1 \in Times
               /\ Calls(DecoKey, Times \ {t, t + W + 1}) = 0
               /\ Calls(DecoKey, {t}) = L + 1
               /\ Calls(DecoKey, {t + W + 1}) = 1
               /\ Count(DecoKey, "raised", Times) = 0 )
                => Count(DecoKey, "allowed", {t + W + 1}) = 1

\* C4: a check during which the store could not be reached returns
\* allowed = true without raising, and the request goes on to its handler.
C4_FailOpen ==
    \A p \in Procs :
        req[p].store_failed
            => /\ req[p].verdict = "allowed"
               /\ pc[p] = "handler" \/ resp[p].invoked

\* C5: a request that is_allowed denied is answered 429 with
\* X-RateLimit-Limit, X-RateLimit-Remaining = 0, X-RateLimit-Reset and a
\* Retry-After no greater than the window, by the decorator and by the
\* middleware alike, and its handler / application is never invoked.
C5_DeniedIsAnswered429 ==
    \A p \in Procs :
        req[p].verdict = "denied"
            => /\ pc[p] = "done"
               /\ resp[p].status = 429
               /\ resp[p].x_limit = Hdr(req[p].limit)
               /\ resp[p].x_remaining = Hdr(0)
               /\ resp[p].x_reset # Absent
               /\ resp[p].retry_after # Absent
               /\ resp[p].retry_after[1] <= req[p].window
               /\ ~resp[p].invoked

\* a run in which the decorator has denied one request and the middleware
\* another
C5_Witness ==
    \E p, q \in Procs :
        /\ req[p].flow = "deco" /\ req[p].verdict = "denied" /\ resp[p].status = 429
        /\ req[q].flow = "mw" /\ req[q].verdict = "denied" /\ resp[q].status = 429

\* C6: inside one 60-second window, the text-to-speech requests of one user
\* that reach the TTS service number at most the user's documented plan limit.
C6_PlanTTSLimitEnforced ==
    ( /\ Account.plan \in DOMAIN DocumentedTTSPerMinute
      /\ EndTime - StartTime < get_rate_limit(Account.plan, "tts").window )
        => served <= DocumentedTTSPerMinute[Account.plan]

(***************************************************************************)
(* Properties of RemoteGPUClient (SpecGPU).                                *)
(***************************************************************************)
Finished == gpc = "done"

Last(seq) == seq[Len(seq)]

\* C7: with enabled = true and retry_attempts = R >= 1, no call sends more
\* than R requests, and a call all of whose attempts failed transiently
\* (5xx, connection error, timeout) has made exactly R attempts and raised.
C7_RetryCeilingExact ==
    (config.enabled /\ config.retry_attempts >= 1)
        => /\ sent <= config.retry_attempts
           /\ (Finished /\ \A i \in 1..Len(respLog) : respLog[i] \in Transient)
                => /\ Len(respLog) = config.retry_attempts
                   /\ sent = config.retry_attempts
                   /\ outcome = "raised"

\* a clone_voice call with R = 3 that failed three times, once by timeout
C7_Witness ==
    /\ Finished /\ config.enabled /\ config.retry_attempts = 3
    /\ gop = "clone_voice"
    /\ respLog = <<"connect_error", "timeout", "http_5xx">>
    /\ sent = 3 /\ outcome = "raised"

\* C8: an attempt answered with a 4xx status ends the call: it is the last
\* attempt of the call.
C8_ClientErrorIsTerminal ==
    \A i \in 1..Len(respLog) :
        respLog[i] = "http_4xx" => (i = Len(respLog) /\ Finished)

\* C9: a call that has used up its attempts raises the error of its last
\* attempt, and a call returns a response body only if its last attempt
\* was answered successfully.
C9_LastErrorSurfaced ==
    Finished
        => /\ (outcome = "raised" /\ sent > 0) => raisedErr = Last(respLog)
           /\ ( /\ sent > 0
                /\ sent = config.retry_attempts
                /\ Last(respLog) # "ok" )
                => (outcome = "raised" /\ raisedErr = Last(respLog))
           /\ outcome = "returned" => (sent > 0 /\ Last(respLog) = "ok")

\* a call that used up two or more attempts on different errors and raised
\* the last of them
C9_Witness ==
    /\ Finished /\ sent = config.retry_attempts /\ sent >= 2
    /\ respLog[1] # Last(respLog)
    /\ outcome = "raised" /\ raisedErr = Last(respLog)

\* C10: with enabled = false every inference operation raises at once and
\* sends no HTTP request.
C10_DisabledRaisesWithoutIO ==
    ~config.enabled
        => /\ sent = 0
           /\ gpc # "attempt"
           /\ Finished => (outcome = "raised" /\ raisedErr = "RuntimeError")

\* a clone_voice call made with enabled = false
C10_Witness ==
    /\ ~config.enabled /\ Finished /\ gop = "clone_voice"
    /\ outcome = "raised" /\ sent = 0

\* C11: health_check sends exactly one GET /health per call, never a second
\* one, and never raises: a failed attempt yields the status "offline".
C11_HealthCheckOneShot ==
    /\ probe.pc # "idle" => probe.sent = 1
    /\ ~probe.raised
    /\ probe.pc = "done" => probe.result \in {"worker_status", "offline"}

\* a health_check that failed and returned the offline status, made with
\* enabled = true and retry_attempts = 3
C11_Witness ==
    /\ probe.pc = "done" /\ probe.result = "offline" /\ probe.sent = 1
    /\ config.enabled /\ config.retry_attempts = 3

\* C12: one clone_voice call makes the worker complete the clone once for
\* every attempt whose upload it received in full, earlier completions of the
\* same call notwithstanding: up to retry_attempts times.
C12_CloneRepeatedPerAttempt ==
    gop = "clone_voice"
        => /\ completed = Cardinality({i \in 1..Len(worked) : worked[i]})
           /\ completed <= sent
           /\ config.retry_attempts >= 1 => completed <= config.retry_attempts

\* one clone_voice call with retry_attempts = 3 that timed out three times
\* after the worker had done the work: three completed clones, and an error
C12_Witness ==
    /\ gop = "clone_voice" /\ Finished /\ config.retry_attempts = 3
    /\ respLog = <<"timeout", "timeout", "timeout">>
    /\ completed = 3 /\ outcome = "raised"

\* C19: a RemoteGPUClient has at most one open connection handle: none is
\* created before the first operation; an operation creates a handle only
\* when the client holds none or a closed one, and then the client holds the
\* new, open handle; an operation that finds an open handle keeps it; close()
\* closes the handle held and creates none.
C19_OneConnectionHandle ==
    /\ [](/\ Cardinality(OpenHandles(handles)) <= 1
          /\ (gpc = "idle" /\ probe.pc = "idle") => handles = <<>>
          /\ OpenHandles(handles) \subseteq {client})
    /\ [][ /\ IsOpen(client, handles) /\ handles'[client] = "open"
              => (client' = client /\ Len(handles') = Len(handles))
           /\ Len(handles') > Len(handles)
              => /\ ~IsOpen(client, handles)
                 /\ Len(handles') = Len(handles) + 1
                 /\ client' = Len(handles')
                 /\ IsOpen(client', handles')
           /\ (IsOpen(client, handles) /\ ~IsOpen(client, handles'))
              => (client' = client /\ OpenHandles(handles') = {})
         ]_vars

\* an operation issued after close() has created a second handle, the only
\* open one
C19_Witness ==
    /\ Len(handles) = 2 /\ handles[1] = "closed" /\ handles[2] = "open"
    /\ client = 2

\* C18: the configuration is read once: whenever is_remote_gpu_enabled() is
\* asked while the singleton client exists, its answer is the enabled flag
\* the singleton client works with, whatever has happened to the environment.
C18_ConfigReadOnce ==
    (singleton /\ answer # Absent /\ answer[1].clientExisted)
        => answer[1].value = config.enabled

(***************************************************************************)
(* Properties of the text-to-speech route (SpecTTS).                       *)
(***************************************************************************)
\* C13: speech generation is invoked only for requests with valid
\* credentials and a text within the maximum length; a request without valid
\* credentials is answered 401 and an over-length text 400, both without a
\* synthesis call.
C13_SynthesisOnlyForValidRequests ==
    \A p \in Procs :
        LET c == ttsCall[p] IN
        /\ c.synthesis
              => (c.cred \in ValidCredentials /\ c.text_len <= MaxTextLength)
        /\ (c.pc = "done" /\ c.cred \notin ValidCredentials)
              => (c.status = 401 /\ ~c.synthesis)
        /\ (c.pc = "done" /\ c.cred \in ValidCredentials
                          /\ c.text_len > MaxTextLength)
              => (c.status = 400 /\ ~c.synthesis)

(***************************************************************************)
(* Properties of the GPU worker (SpecWorker).                              *)
(***************************************************************************)
\* C14: at any time at most one inference invocation is executing on each
\* model, however many requests the worker has been sent.
C14_OneInferencePerModel ==
    \A m \in ModelNames : running[m] <= 1

\* one request is inside an inference call on the tts model while another
\* request for the same model has arrived and waits for the event loop
C14_Witness ==
    \E p, q \in Procs :
        /\ p # q
        /\ wreq[p].endpoint = "/tts/generate" /\ wreq[p].pc = "infer"
        /\ wreq[q].endpoint = "/tts/generate" /\ wreq[q].pc = "start"
        /\ running["tts"] = 1

\* C15: each model is constructed at most once in the process.
C15_ModelBuiltOnce ==
    \A m \in ModelNames : built[m] <= 1

\* C16: GET /health and GET /gpu/info load no model: the step that answers
\* either leaves every model field and every construction count as it was,
\* and the models_loaded of a /health answer is the loaded status of each
\* model at that moment.
C16_HealthLoadsNothing ==
    [][ \A p \in Procs :
          ( /\ wreq[p].pc = "start"
            /\ wreq[p].endpoint \in {"/health", "/gpu/info"}
            /\ wreq'[p].pc = "done" )
          => /\ models' = models
             /\ built' = built
             /\ wreq'[p].status = 200
             /\ wreq[p].endpoint = "/health"
                  => wreq'[p].models_loaded = [m \in ModelNames |-> models[m] # NoModel]
      ]_vars

\* a /health answer given while tts was loaded and demucs was not
C16_Witness ==
    \E p \in Procs :
        /\ wreq[p].pc = "done" /\ wreq[p].endpoint = "/health"
        /\ wreq[p].models_loaded["tts"] /\ ~wreq[p].models_loaded["demucs"]
        /\ models["demucs"] = NoModel /\ built["demucs"] = 0

\* C17: a request with malformed input (missing required field, out-of-range
\* duration or step count, over-long text, unsupported output format,
\* unreadable audio) is answered with a 4xx status and no model is accessed
\* for it.
C17_MalformedInputRejected ==
    \A p \in Procs :
        (wreq[p].pc = "done" /\ wreq[p].input # "valid")
            => /\ wreq[p].status >= 400 /\ wreq[p].status <= 499
               /\ ~wreq[p].accessed

\* C20: an is_allowed call that returns allowed = false records nothing: the
\* key's stored timestamps after the call are those before it minus the
\* expired entries the call evicted; only admitted calls add an entry.
C20_DeniedRecordsNothing ==
    [][ \A p \in Procs :
          ( /\ pc[p] = "pipe"
            /\ pc'[p] # "pipe"
            /\ req'[p].verdict = "denied" )
          => store'[req[p].key] =
                 zremrangebyscore(store[req[p].key], 0,
                                  req[p].now - req[p].window)
      ]_vars

\* C21: a check evicts only timestamps strictly older than now - windowSeconds:
\* an entry whose timestamp equals now - windowSeconds is kept by the check
\* and counts against the limit in it.
C21_BoundaryEntryKept ==
    [][ \A p \in Procs :
          ( /\ pc[p] = "pipe"
            /\ pc'[p] # "pipe"
            /\ req'[p].verdict \in {"allowed", "denied"} )
          => LET r    == req[p]
                 live == {s \in store[r.key] : s >= r.now - r.window}
             IN  /\ live \subseteq store'[r.key]
                 /\ (req'[p].verdict = "allowed") <=> (Cardinality(live) < r.limit)
      ]_vars

\* C22: every is_allowed call, admitted or rejected, sets the key's expiry to
\* windowSeconds + 1 seconds from the moment it runs; a key that holds
\* entries always has an expiry ahead of it, and when that time is reached
\* without another check the key is removed from the store.
C22_ExpiryRefreshed ==
    /\ [](\A k \in KeySpace :
            store[k] # {} => (expireAt[k] # Persistent /\ clock < expireAt[k]))
    /\ [][ \A p \in Procs :
             ( /\ pc[p] = "pipe"
               /\ pc'[p] # "pipe"
               /\ req'[p].verdict \in {"allowed", "denied"} )
             => expireAt'[req[p].key] = clock + req[p].window + 1
         ]_vars
    /\ [][ \A k \in KeySpace :
             (expireAt[k] # Persistent /\ clock' >= expireAt[k])
                => (store'[k] = {} /\ expireAt'[k] = Persistent)
         ]_vars

\* the decorator's key was checked, with a rejected call among the checks,
\* and has since expired
C22_Witness ==
    /\ Count(DecoKey, "denied", Times) > 0
    /\ store[DecoKey] = {}
    /\ expireAt[DecoKey] = Persistent

\* C23: a get_usage call on a key, with any window_seconds argument, removes
\* no entry that is still inside the window the key's is_allowed calls use
\* (an entry the next is_allowed call at this moment would keep and count).
C23_GetUsageKeepsLiveEntries ==
    [][ usage' # usage
          => \A s \in store[DecoKey] :
                (s > clock - KeyConfig(DecoKey).window) => s \in store'[DecoKey]
      ]_vars

C25_OneEntryPerRequest ==
    [][ \A p \in Procs :
          ( /\ pc[p] = "pipe"
            /\ pc'[p] # "pipe"
            /\ req'[p].verdict \in {"allowed", "denied"} )
          => LET r     == req[p]
                 found == zremrangebyscore(store[r.key], 0, r.now - r.window)
             IN  Cardinality(store'[r.key]) = Cardinality(found) + 1
      ]_vars

\* C26: for every configured retry_attempts value, 0 and negative values
\* included, a finished call of an enabled inference operation has returned
\* the body of a successful worker response or has raised an error; it has
\* never returned without having made a request attempt.
C26_NeverReturnsWithoutAttempt ==
    (gpc = "done" /\ gop # None /\ EnabledCheck(config))
        => \/ outcome = "raised"
           \/ /\ outcome = "returned"
              /\ sent >= 1
              /\ respLog # <<>>
              /\ respLog[Len(respLog)] = "ok"

\* C27: no attempt of an inference call is made on a closed connection
\* handle: when close() runs while the call is before or between its
\* attempts, each remaining attempt of the call uses an open handle.
C27_AttemptsUseOpenHandle ==
    \A i \in 1..Len(respLog) : respLog[i] # ClientClosed

\* C28: key expiry never discards a live entry: whenever a key expires,
\* every timestamp it held is already outside the window of the is_allowed
\* calls that use the key (the window that ends at the present time, and
\* the window of every call on the key that is under way), so that those
\* calls would have evicted the entry themselves.
C28_ExpiryDiscardsNoLiveEntry ==
    [][ \A k \in KeySpace :
          (clock' # clock /\ store[k] # {} /\ store'[k] = {})
          => \A s \in store[k] :
                /\ s <= clock' - KeyConfig(k).window
                /\ \A p \in Procs :
                      (pc[p] = "pipe" /\ req[p].key = k)
                         => s <= req[p].now - req[p].window
      ]_vars

\* C29: the body of a submitted Celery inference task runs at most
\* max_retries + 1 times, and the task ends with a result dictionary:
\* success = true from a run that succeeded, or success = false after the
\* final failed run; it never ends by raising.
C29_TaskEndsWithResult ==
    job.pc # "none"
        => /\ job.runs <= TaskMaxRetries[job.name] + 1
           /\ job.pc = "done"
                => \/ job.result = "success_true" /\ job.last = "returned"
                   \/ /\ job.result = "success_false"
                      /\ job.last = "exception"
                      /\ job.retries = TaskMaxRetries[job.name]

\* C30: after a WebSocket handler has returned, by whatever path, its
\* connection_id is neither a key of active_connections nor in any list of
\* user_connections; and at all times every id in a list of
\* user_connections is a key of active_connections.
C30_ConnectionsDeregistered ==
    LET uc == manager.user_connections
        Listed == {uc[u][i] : <<u, i>> \in
                      {<<v, k>> \in (DOMAIN uc) \X (1..MaxConnections) :
                           k <= Len(uc[v])}}
    IN  /\ \A p \in Procs :
              (ws[p].pc = "returned" /\ ws[p].connection_id # 0)
                 => /\ ws[p].connection_id \notin manager.active_connections
                    /\ ws[p].connection_id \notin Listed
        /\ Listed \subseteq manager.active_connections

\* a /ws/stt handler of user u1 has returned after an exception whose report
\* failed as well, while another connection of u1 is still being served
C30_Witness ==
    \E p, q \in Procs :
        /\ ws[p].pc = "returned" /\ ws[p].endpoint = "/ws/stt"
        /\ ws[p].path = "exception_in_except" /\ ws[p].user_id = "u1"
        /\ ws[q].pc = "serving" /\ ws[q].user_id = "u1"
        /\ manager.user_connections["u1"] = <<ws[q].connection_id>>
        /\ manager.active_connections = {ws[q].connection_id}

====
